---- MODULE Spec2Model ----
(***************************************************************************)
(* vue-monitor: the telemetry engine VueMonitor and its plugin installer.  *)
(*                                                                         *)
(* The repository holds two variants of the engine:                        *)
(*   "monitor"   src/src/monitor.ts + src/src/index.ts                     *)
(*               (dedup cache swept as a whole map on every report)        *)
(*   "part_000"  src/unnamed/part_000                                      *)
(*               (dedup cache with an ordered eviction queue)              *)
(* One engine instance is modelled; `variant` says which code it runs.     *)
(***************************************************************************)
EXTENDS Integers, Sequences, FiniteSets, TLC

VARIABLES
    variant,        \* which of the two source variants this instance runs
    installArgs,    \* the arguments the host passes to VueMonitorPlugin.install
    env,            \* the host environment the plugin touches (window, document, Vue)
    options,        \* this.options (after the constructor ran)
    breadcrumbs,    \* this.breadcrumbs
    errorCache,     \* this.errorCache : Map<string, number>
    errorQueue,     \* this.errorQueue (part_000 only)
    now,            \* Date.now()
    requests,       \* the fetch() requests in flight (promise pending)
    composing,      \* initBehavior: let composing (monitor.ts)
    buf,            \* initBehavior: let buf (part_000)
    last,           \* initBehavior: let last (part_000)
    platform,       \* what the browser supports and which handlers the host had set
    frame,          \* initFrameDropMonitor: its closure variables and document.hidden
    recorded,       \* history: number of addBreadcrumb calls so far
    lastSent,       \* history: error (message, stack, url) -> time of its latest accepted report
    lastAccepted,   \* history: hash -> time of its latest accepted report
    lastOp          \* history: the operation that produced this state

vars == <<variant, installArgs, env, options, breadcrumbs, errorCache,
          errorQueue, now, requests, composing, buf, last, platform, frame,
          recorded, lastSent, lastAccepted, lastOp>>

-----------------------------------------------------------------------------
(* Bounds of the model *)

MaxRecorded == 32       \* addBreadcrumb calls explored in SpecBuffer
MaxNow == 5             \* largest clock value explored in Spec and SpecInstall
MaxInFlight == 1        \* fetch() requests in flight at a time
MaxQueue == 3           \* longest eviction queue explored
MaxCrumbs == 2          \* addBreadcrumb calls explored outside SpecBuffer
MaxBuf == 2             \* longest keystroke buffer explored
MaxTypingNow == 102     \* largest clock value explored in SpecBehavior
MaxConfigNow == 2        \* largest clock value explored in SpecConfig
MaxFrameNow == 240      \* milliseconds of frames explored in SpecFrame
MaxCached == 1          \* cache entries before the last error event in SpecErrors
MaxHashNow == 3         \* largest clock value explored in SpecHash
MaxErrorsNow == 1       \* largest clock value explored in SpecErrors
MaxPerfNow == 120       \* milliseconds explored in SpecPerf
MaxFrameCrumbs == 3     \* frame-drop breadcrumbs explored     \* largest clock value explored in SpecBehavior

-----------------------------------------------------------------------------
(* JavaScript values *)

\* `undefined` for a numeric option
Undefined == -1

\* `undefined` for a string-valued field (JSON.stringify omits such a field,
\* a template literal prints it as the text "undefined")
UndefinedStr == "undefined"

Variants == {"monitor", "part_000"}

\* JS truthiness of a number | undefined
Truthy(n) == n # Undefined /\ n # 0

\* a ||= d   (assign d when a is falsy)
OrAssign(a, d) == IF Truthy(a) THEN a ELSE d

\* a ??= TRUE for a boolean | undefined option given as "true" | "false" | "undefined"
NullishAssignTrue(a) == IF a = "undefined" THEN TRUE ELSE a = "true"

DefaultMaxBreadcrumbs(v) == IF v = "monitor" THEN 30 ELSE 20

DefaultErrorThrottleTime == 60 * 1000

\* VueMonitor.constructor: fills the defaults into the options object
Constructor(v, opt) ==
    [ reportUrl |-> opt.reportUrl,
      projectName |-> opt.projectName,
      projectVersion |-> opt.projectVersion,
      maxBreadcrumbs |-> OrAssign(opt.maxBreadcrumbs, DefaultMaxBreadcrumbs(v)),
      errorThrottleTime |-> OrAssign(opt.errorThrottleTime, DefaultErrorThrottleTime),
      filterInputAndScanData |-> NullishAssignTrue(opt.filterInputAndScanData),
      customData |-> opt.customData ]

-----------------------------------------------------------------------------
(* Breadcrumb buffer *)

\* this.breadcrumbs.shift()
Shift(s) == SubSeq(s, 2, Len(s))

\* a mutant of the eviction: the newest entry is dropped instead of the oldest
addBreadcrumbDropNewest(crumbs, b, opts) ==
    LET pushed == Append(crumbs, b)
    IN  IF Len(pushed) > OrAssign(opts.maxBreadcrumbs, 20)
        THEN SubSeq(pushed, 1, Len(pushed) - 1)
        ELSE pushed

\* VueMonitor.addBreadcrumb: push, then shift once if the buffer is too long
addBreadcrumb(crumbs, b, opts) ==
    LET pushed == Append(crumbs, b)
    IN  IF Len(pushed) > OrAssign(opts.maxBreadcrumbs, 20)
        THEN Shift(pushed)
        ELSE pushed

\* formatDate(): "YYYY-MM-DD HH:mm:ss", the clock cut to whole seconds
FormatDate(t) == ToString(t \div 1000)

\* A Breadcrumb object.  `id` stands for the identity of the object (the
\* n-th breadcrumb ever recorded).
Breadcrumb(type, target, value, n, t) ==
    [ type |-> type, target |-> target, value |-> value,
      timestamp |-> FormatDate(t), id |-> n ]

-----------------------------------------------------------------------------
(* History records (not program state) *)

\* what the last operation was and what it did
Op(name) ==
    [ op |-> name, accepted |-> FALSE, hash |-> "", prev |-> Undefined,
      swept |-> 0, text |-> "", added |-> FALSE,
      \* reports: time of the latest accepted report of the same error
      prevSame |-> Undefined,
      \* error entry points: the value thrown, whether the handler threw, the
      \* message handed to reportError, calls of the handler the host had set
      thrown |-> "", threw |-> FALSE, reported |-> FALSE, message |-> "",
      hasMessage |-> FALSE, original |-> 0, originalArg |-> "",
      \* frame ticks: the delta, whether the tick was counted as a drop, whether
      \* it recorded a breadcrumb, whether the page was hidden since the last
      \* visible tick, the time of the emission before, the drops since then
      delta |-> 0, counted |-> FALSE, emitted |-> FALSE, afterHidden |-> FALSE,
      prevEmit |-> Undefined, drops |-> 0 ]

-----------------------------------------------------------------------------
(* The host: what install() is given and what it touches *)

ReportUrl == "https://collector/report"

\* the options argument of install(): missing altogether, or an object
OptionArgs ==
    { [ given |-> g, reportUrl |-> u, maxBreadcrumbs |-> Undefined,
        errorThrottleTime |-> Undefined, filterInputAndScanData |-> "undefined",
        projectName |-> "shop", projectVersion |-> UndefinedStr,
        customData |-> <<>> ]
      : g \in BOOLEAN, u \in {UndefinedStr, "", ReportUrl} }

\* the first argument of install(): a Vue 3 app (config + config.globalProperties),
\* the Vue 2 constructor (config, prototype, version) or an object that is neither
Hosts == {"vue3", "vue2", "none"}

\* !options || !options.reportUrl
NoReportUrl(opt) == (~opt.given) \/ opt.reportUrl = UndefinedStr \/ opt.reportUrl = ""

\* the environment before install(): nothing of the plugin is attached
PristineEnv ==
    [ onerrorWrapped |-> FALSE, onunhandledrejectionWrapped |-> FALSE,
      listeners |-> {}, observers |-> {}, frameLoop |-> FALSE,
      errorHandlerReplaced |-> FALSE, exposed |-> "none",
      outcome |-> "not installed" ]

PerfTypes == {"paint", "largest-contentful-paint", "first-input", "layout-shift", "longtask"}

\* VueMonitor.initGlobalError
InitGlobalError(e) ==
    [e EXCEPT !.onerrorWrapped = TRUE, !.onunhandledrejectionWrapped = TRUE,
              !.listeners = @ \cup {"error"}]

\* VueMonitor.initBehavior: the DOM listeners of each variant
InitBehavior(v, e) ==
    [e EXCEPT !.listeners = @ \cup
        (IF v = "monitor"
         THEN {"click", "input", "compositionstart", "compositionend", "keydown"}
         ELSE {"click", "input", "keydown"})]

\* the browser: is PerformanceObserver a function, for which categories does
\* subscribing throw, and had the host set window.onerror,
\* window.onunhandledrejection and config.errorHandler before install()
Browser == [perfObserver |-> TRUE, throwing |-> {}, original |-> FALSE]

\* the order in which initPerformanceMonitor subscribes the categories
PerfOrder ==
    <<"paint", "largest-contentful-paint", "first-input", "layout-shift", "longtask">>

\* the categories subscribed before the first one that throws
RECURSIVE SubscribedUntilThrow(_, _)
SubscribedUntilThrow(types, throwing) ==
    IF types = <<>> \/ Head(types) \in throwing
    THEN {}
    ELSE {Head(types)} \cup SubscribedUntilThrow(Tail(types), throwing)

\* one try/catch around the whole method: the first throw ends it
InitPerformanceMonitorOneTry(p, e) ==
    IF ~p.perfObserver
    THEN e
    ELSE [e EXCEPT !.observers = SubscribedUntilThrow(PerfOrder, p.throwing),
                   !.frameLoop = (p.throwing = {})]

\* VueMonitor.initPerformanceMonitor (monitor.ts): returns at once without
\* PerformanceObserver; else subscribes each category in a try/catch of its
\* own, then starts the frame-drop monitor
InitPerformanceMonitor(p, e) ==
    IF ~p.perfObserver
    THEN e
    ELSE [e EXCEPT !.observers = {PerfOrder[i] : i \in 1..Len(PerfOrder)} \ p.throwing,
                   !.frameLoop = TRUE]

\* VueMonitor.initVue
InitVue(e) == [e EXCEPT !.errorHandlerReplaced = TRUE]

\* VueMonitorPlugin.install of src/src/index.ts
InstallMonitor(opt, host, p, e) ==
    IF NoReportUrl(opt)
    THEN [e EXCEPT !.outcome = "console.error"]
    ELSE IF host = "none"
    THEN [e EXCEPT !.outcome = "console.warn"]
    ELSE [ InitVue(InitPerformanceMonitor(p, InitBehavior("monitor", InitGlobalError(e))))
           EXCEPT !.exposed = "$monitor", !.outcome = "installed" ]

\* VueMonitorPlugin.install of src/unnamed/part_000: no check of the options.
\* new VueMonitor(undefined) throws a TypeError in the constructor; initVue
\* throws one when the host has no config object.
InstallPart000(opt, host, e) ==
    IF ~opt.given
    THEN [e EXCEPT !.outcome = "TypeError"]
    ELSE IF host = "none"
    THEN [e EXCEPT !.outcome = "TypeError"]
    ELSE [ InitBehavior("part_000", InitGlobalError(InitVue(e)))
           EXCEPT !.exposed = "VueMonitorInstance", !.outcome = "installed" ]

InstallEnv(v, opt, host, p, e) ==
    IF v = "monitor" THEN InstallMonitor(opt, host, p, e) ELSE InstallPart000(opt, host, e)

\* the options object a constructed engine holds; none when no engine was built
NoOptions ==
    [ reportUrl |-> UndefinedStr, projectName |-> UndefinedStr,
      projectVersion |-> UndefinedStr, maxBreadcrumbs |-> Undefined,
      errorThrottleTime |-> Undefined, filterInputAndScanData |-> FALSE,
      customData |-> <<>> ]

-----------------------------------------------------------------------------
(* Maps (Map<string, number>, plain objects) as functions with a finite domain *)

EmptyMap == <<>>

MapHas(m, k) == k \in DOMAIN m

MapSet(m, k, v) == [x \in (DOMAIN m) \cup {k} |-> IF x = k THEN v ELSE m[x]]

MapDelete(m, k) == [x \in (DOMAIN m) \ {k} |-> m[x]]

\* { ...a, ...b }: the keys of b replace those of a
Spread(a, b) ==
    [x \in (DOMAIN a) \cup (DOMAIN b) |-> IF x \in DOMAIN b THEN b[x] ELSE a[x]]

-----------------------------------------------------------------------------
(* Error deduplication *)

LocationHref == "/page"

\* reportError's first statement: an Error object is turned into an ErrorInfo
\* at the current location, an ErrorInfo is taken as it is
ToErrorInfo(err, t) ==
    IF err.isError
    THEN [ message |-> err.message, stack |-> err.stack, info |-> UndefinedStr,
           url |-> LocationHref, timestamp |-> FormatDate(t) ]
    ELSE [ message |-> err.message, stack |-> err.stack, info |-> err.info,
           url |-> err.url, timestamp |-> err.timestamp ]

\* a hash that leaves the url out
getErrorHashNoUrl(e) == e.message \o "-" \o e.stack

\* VueMonitor.getErrorHash: `${e.message}-${e.stack}-${e.url}`
getErrorHash(e) == e.message \o "-" \o e.stack \o "-" \o e.url

\* a mutant of the sweep of monitor.ts: an entry is kept one tick too long
SweepMapLate(cache, t, limit) ==
    [h \in {x \in DOMAIN cache : ~(t - cache[x] > limit + 1)} |-> cache[h]]

\* monitor.ts: for (const [h, t] of this.errorCache.entries())
\*                 if (now - t > limit) this.errorCache.delete(h)
SweepMap(cache, t, limit) ==
    [h \in {x \in DOMAIN cache : ~(t - cache[x] > limit)} |-> cache[h]]

\* part_000: while (this.errorQueue[0] && now - this.errorQueue[0].time > limit)
\*               this.errorCache.delete(this.errorQueue.shift()!.hash)
RECURSIVE SweepQueue(_, _, _, _)
SweepQueue(cache, queue, t, limit) ==
    IF Len(queue) > 0 /\ t - queue[1].time > limit
    THEN SweepQueue(MapDelete(cache, queue[1].hash), Shift(queue), t, limit)
    ELSE [cache |-> cache, queue |-> queue]

\* a mutant of the duplicate test of monitor.ts: the window ends one tick early
IsDuplicateMonitorShort(cache, hash, t, limit) ==
    MapHas(cache, hash) /\ t - cache[hash] < limit - 1

\* a mutant of the duplicate test of monitor.ts: `<=` for `<`
IsDuplicateMonitorInclusive(cache, hash, t, limit) ==
    MapHas(cache, hash) /\ t - cache[hash] <= limit

\* monitor.ts: this.errorCache.has(hash) && now - this.errorCache.get(hash)! < limit
IsDuplicateMonitor(cache, hash, t, limit) ==
    MapHas(cache, hash) /\ t - cache[hash] < limit

\* part_000: this.errorCache.get(hash) && now - this.errorCache.get(hash)! < limit
\* (get() is undefined for a missing hash; a timestamp of 0 is falsy as well)
IsDuplicateQueue(cache, hash, t, limit) ==
    MapHas(cache, hash) /\ Truthy(cache[hash]) /\ t - cache[hash] < limit

\* a mutant of the decision: a duplicate refreshes the timestamp of its hash
DedupRefreshing(v, cache, queue, hash, t, limit) ==
    IF v = "monitor"
    THEN LET swept == SweepMap(cache, t, limit)
             dup == IsDuplicateMonitor(swept, hash, t, limit)
         IN  [ cache |-> IF dup THEN MapSet(swept, hash, t) ELSE swept, queue |-> queue,
               duplicate |-> dup ]
    ELSE LET swept == SweepQueue(cache, queue, t, limit)
             dup == IsDuplicateQueue(swept.cache, hash, t, limit)
         IN  [ cache |-> IF dup THEN MapSet(swept.cache, hash, t) ELSE swept.cache,
               queue |-> swept.queue, duplicate |-> dup ]

\* the sweep and the duplicate test of reportError, up to the decision
Dedup(v, cache, queue, hash, t, limit) ==
    IF v = "monitor"
    THEN LET swept == SweepMap(cache, t, limit)
         IN  [ cache |-> swept, queue |-> queue,
               duplicate |-> IsDuplicateMonitor(swept, hash, t, limit) ]
    ELSE LET swept == SweepQueue(cache, queue, t, limit)
         IN  [ cache |-> swept.cache, queue |-> swept.queue,
               duplicate |-> IsDuplicateQueue(swept.cache, hash, t, limit) ]

\* this.errorCache.set(hash, now) and, in part_000, this.errorQueue.push(...)
Remember(v, cache, queue, hash, t) ==
    [ cache |-> MapSet(cache, hash, t),
      queue |-> IF v = "monitor" THEN queue
                ELSE Append(queue, [hash |-> hash, time |-> t]) ]

-----------------------------------------------------------------------------
(* Error entry points: what the handlers make of a thrown value *)

\* values a program can throw or reject with: an Error, a string, null,
\* undefined, and an object without prototype (Object.create(null))
Thrown == {"Error", "string", "null", "undefined", "bare"}

Nullish(x) == x \in {"null", "undefined"}

\* x.message and x.stack of a value that is not null or undefined
MessageOf(x) == IF x = "Error" THEN "boom" ELSE UndefinedStr
StackOf(x) == IF x = "Error" THEN "at f" ELSE UndefinedStr

\* String(x) and x.toString(), where they do not throw
ToStr(x) ==
    CASE x = "Error" -> "Error: boom"
      [] x = "string" -> "oops"
      [] x = "null" -> "null"
      [] OTHER -> "undefined"

\* the first argument the browser gives window.onerror for an uncaught x
UncaughtMessage(x) ==
    CASE x = "Error" -> "Uncaught Error: boom"
      [] x = "string" -> "Uncaught oops"
      [] x = "bare" -> ""
      [] OTHER -> "Uncaught " \o ToStr(x)

\* a || d for strings
OrString(a, d) == IF a = "" THEN d ELSE a

\* a handler that threw before it could call reportError
Threw == [threw |-> TRUE, message |-> "", hasMessage |-> FALSE, stack |-> UndefinedStr,
          info |-> UndefinedStr]

\* the ErrorInfo fields a handler hands to reportError
Built(message, hasMessage, stack, info) ==
    [threw |-> FALSE, message |-> message, hasMessage |-> hasMessage, stack |-> stack,
     info |-> info]

\* config.errorHandler of monitor.ts on Vue 3: `err instanceof Error ?
\* err.message : String(err)`; String() of an object without prototype throws
VueHandler3(x) ==
    IF x = "bare"
    THEN Threw
    ELSE Built(IF x = "Error" THEN MessageOf(x) ELSE ToStr(x), TRUE, StackOf(x), "render")

\* config.errorHandler of monitor.ts on Vue 2 and of part_000: `err.message`,
\* `err.stack`; reading a property of null or undefined throws
VueHandler2(x) ==
    IF Nullish(x)
    THEN Threw
    ELSE Built(MessageOf(x), x = "Error", StackOf(x), "render")

\* window.onerror: `String(msg) || 'unknown error'`, `err?.stack`
OnerrorHandler(x) ==
    Built(OrString(UncaughtMessage(x), "unknown error"), TRUE,
          IF Nullish(x) THEN UndefinedStr ELSE StackOf(x), UndefinedStr)

\* window.onunhandledrejection: `e.reason?.toString() || '...'`,
\* `e.reason?.stack`; an object without prototype has no toString to call
RejectionHandler(x) ==
    IF x = "bare"
    THEN Threw
    ELSE Built(IF Nullish(x) THEN "unhandled promise rejection"
               ELSE OrString(ToStr(x), "unhandled promise rejection"),
               TRUE, IF Nullish(x) THEN UndefinedStr ELSE StackOf(x), UndefinedStr)

Entries == {"errorHandler", "onerror", "onunhandledrejection"}

\* the handler install() put at the entry point, applied to x
Handler(v, host, entry, x) ==
    CASE entry = "onerror" -> OnerrorHandler(x)
      [] entry = "onunhandledrejection" -> RejectionHandler(x)
      [] OTHER -> IF v = "monitor" /\ host = "vue3" THEN VueHandler3(x)
                  ELSE VueHandler2(x)

-----------------------------------------------------------------------------
(* Report dispatch *)

\* JSON.stringify of a Breadcrumb: a field that is undefined is left out (and
\* so is the identity of the object)
JsonBreadcrumb(b) ==
    [k \in {"type", "timestamp"} \cup {x \in {"target", "value"} : b[x] # UndefinedStr}
        |-> b[k]]

JsonBreadcrumbs(crumbs) == [i \in 1..Len(crumbs) |-> JsonBreadcrumb(crumbs[i])]

\* JSON.stringify of an ErrorInfo
JsonErrorInfo(info) ==
    [k \in {"message", "url", "timestamp"} \cup {x \in {"stack", "info"} : info[x] # UndefinedStr}
        |-> info[k]]

\* let payload = { projectName, projectVersion, error, breadcrumbs, ...customData }
\* (part_000 has no customData and builds the object inside JSON.stringify)
Payload(v, opts, info, crumbs) ==
    LET base == [ projectName |-> opts.projectName,
                  projectVersion |-> opts.projectVersion,
                  error |-> info,
                  breadcrumbs |-> crumbs ]
    IN  IF v = "monitor" THEN Spread(base, opts.customData) ELSE base

\* JSON.stringify(payload): the text sent; it is built when reportError runs
Stringify(payload) ==
    [k \in {x \in DOMAIN payload :
                ~(x \in {"projectName", "projectVersion"} /\ payload[x] = UndefinedStr)}
        |-> IF k = "error" THEN JsonErrorInfo(payload[k])
            ELSE IF k = "breadcrumbs" THEN JsonBreadcrumbs(payload[k])
            ELSE payload[k]]

\* fetch(this.options.reportUrl, { method: 'POST', body: JSON.stringify(...) })
Fetch(reqs, v, opts, info, crumbs) ==
    Append(reqs, [ url |-> opts.reportUrl, method |-> "POST",
                   body |-> Stringify(Payload(v, opts, info, crumbs)) ])

\* the request whose promise settled is no longer in flight
Settled(reqs, i) == SubSeq(reqs, 1, i - 1) \o SubSeq(reqs, i + 1, Len(reqs))

\* a mutant of the rejection handler: the report is sent again
CatchRetry(reqs, i) == Append(Settled(reqs, i), reqs[i])

\* .catch(e => console.warn('上报错误失败:', e)): the rejection is logged, and
\* that is all
Catch(reqs, i) == Settled(reqs, i)

-----------------------------------------------------------------------------
(* User behaviour capture (initBehavior) *)

\* String.prototype.trim, for the blanks that occur in the class names below
RECURSIVE Trim(_)
Trim(str) ==
    IF Len(str) > 0 /\ SubSeq(str, 1, 1) = " " THEN Trim(SubSeq(str, 2, Len(str)))
    ELSE IF Len(str) > 0 /\ SubSeq(str, Len(str), Len(str)) = " "
    THEN Trim(SubSeq(str, 1, Len(str) - 1))
    ELSE str

\* the elements events are aimed at.  kind: "input" for an HTMLInputElement or
\* HTMLTextAreaElement, "editable" for a contentEditable element, "other" else
InputEl == [tagName |-> "INPUT", id |-> "pw", className |-> "", kind |-> "input"]
NoteEl == [tagName |-> "DIV", id |-> "", className |-> "note ", kind |-> "editable"]
ButtonEl == [tagName |-> "BUTTON", id |-> "", className |-> "", kind |-> "other"]

Elements == {InputEl, NoteEl, ButtonEl}

\* texts a user types or a scanner sends; "ab" and "xy" differ in content only
Texts == {"", "ab", "xy"}

\* the target string built by `add`
TargetName(v, el) ==
    el.tagName \o (IF el.id # "" THEN "#" \o el.id ELSE "")
               \o (IF el.className # ""
                   THEN "." \o (IF v = "monitor" THEN Trim(el.className) ELSE el.className)
                   ELSE "")

\* monitor.ts getTargetValue: value of an input, textContent || '' of an
\* editable element, '' of anything else
getTargetValue(el, text) == IF el.kind \in {"input", "editable"} THEN text ELSE ""

\* a mutant of the redaction: the raw text is recorded
RedactNever(opts, text) == text

\* this.options.filterInputAndScanData ? `length:${v.length}` : v
Redact(opts, text) ==
    IF opts.filterInputAndScanData THEN "length:" \o ToString(Len(text)) ELSE text

\* keys of a keydown event: a named key or a single character
Keys == {"Enter", "Shift", "a", "b"}

-----------------------------------------------------------------------------
(* Frame-drop monitor (initFrameDropMonitor, monitor.ts) *)

\* performance.now() when Date.now() reads t: the monitor uses differences of
\* its readings only, so both clocks are read off the same time line
PerformanceNow(t) == t

\* `delta > 50`
DropThreshold == 50

\* throttle(..., 100)
ThrottleWait == 100

\* Date.now() of a running page; the throttle's lastTime starts at 0
TimeOrigin == 1000

\* pendingFrameDrop = null
NoPending == [frameTime |-> 0, count |-> 0]

\* initFrameDropMonitor at time t: let lastFrameTime = performance.now(),
\* let pendingFrameDrop = null, the throttle's let lastTime = 0; with them
\* document.hidden and, as history, whether the page was hidden since the
\* last visible tick, the drops counted since the last emission and its time
FrameAt(t) ==
    [ lastFrameTime |-> t, pending |-> NoPending, lastTime |-> 0, hidden |-> FALSE,
      wasHidden |-> FALSE, drops |-> 0, emittedAt |-> Undefined ]

\* a tick counts every long frame, hidden or not
IsDropWhileHidden(hidden, delta) == delta > DropThreshold

\* tick: `!document.hidden && delta > 50`
IsDrop(hidden, delta) == ~hidden /\ delta > DropThreshold

\* tick: pendingFrameDrop after a counted frame of length delta
Accumulate(pending, delta) ==
    IF pending # NoPending
    THEN [pending EXCEPT !.count = @ + 1, !.frameTime = delta]
    ELSE [frameTime |-> delta, count |-> 1]

\* a throttle that lets every call through
ThrottleAlways(lastTime, t) == TRUE

\* throttle (utils.ts): does the call at Date.now() = t run the function
ThrottlePasses(lastTime, t) == t - lastTime >= ThrottleWait

\* JSON.stringify(pendingFrameDrop)
JsonFrameDrop(pending) ==
    "{\"frameTime\":" \o ToString(pending.frameTime)
        \o ",\"count\":" \o ToString(pending.count) \o "}"

-----------------------------------------------------------------------------
(* Inputs *)

\* error values handed to reportError: ErrorInfo objects that differ in url
\* only, and an Error object
ErrA == [ isError |-> FALSE, message |-> "boom", stack |-> "at f", info |-> UndefinedStr,
          url |-> "/a", timestamp |-> "0" ]
ErrB == [ isError |-> FALSE, message |-> "boom", stack |-> "at f", info |-> UndefinedStr,
          url |-> "/b", timestamp |-> "0" ]
ErrObj == [ isError |-> TRUE, message |-> "boom", stack |-> UndefinedStr, info |-> UndefinedStr,
            url |-> UndefinedStr, timestamp |-> UndefinedStr ]

Errors == {ErrA, ErrB, ErrObj}

\* ErrorInfo objects at one url whose message or stack contains a '-'
ErrDashMessage == [ isError |-> FALSE, message |-> "a-b", stack |-> "c",
                    info |-> UndefinedStr, url |-> "/a", timestamp |-> "0" ]
ErrDashStack == [ isError |-> FALSE, message |-> "a", stack |-> "b-c",
                  info |-> UndefinedStr, url |-> "/a", timestamp |-> "0" ]

HashErrors == {ErrA, ErrDashMessage, ErrDashStack}

\* customData objects: none, one extra field, one named like a payload field
CustomNone == EmptyMap
CustomTenant == [k \in {"tenant"} |-> <<"acme">>]
CustomBreadcrumbs == [k \in {"breadcrumbs"} |-> <<>>]

\* an options object with a reportUrl
Options(maxB, throttle, filter, custom) ==
    [ given |-> TRUE, reportUrl |-> ReportUrl, maxBreadcrumbs |-> maxB,
      errorThrottleTime |-> throttle, filterInputAndScanData |-> filter,
      projectName |-> "shop", projectVersion |-> UndefinedStr,
      customData |-> custom ]

\* the options objects of Spec: part_000's MonitorOptions has no customData
ReportOptions(v) ==
    { Options(2, t, "undefined", c) :
        t \in {2, 3},
        c \in IF v = "monitor" THEN {CustomNone, CustomTenant, CustomBreadcrumbs}
              ELSE {CustomNone} }

-----------------------------------------------------------------------------
(* Initial states *)

\* nothing has happened yet to the rest of the state; the clock reads t
FreshAt(t) ==
    /\ breadcrumbs = <<>>
    /\ errorCache = EmptyMap
    /\ errorQueue = <<>>
    /\ now = t
    /\ frame = FrameAt(t)
    /\ lastSent = EmptyMap
    /\ requests = <<>>
    /\ composing = FALSE
    /\ buf = ""
    /\ last = 0
    /\ recorded = 0
    /\ lastAccepted = EmptyMap
    /\ lastOp = Op("init")

Fresh == FreshAt(0)

\* an engine installed at time t on an app of one of the given framework
\* versions, in one of the given browsers, with one of the given options objects
InstalledOn(optionSet, hosts, browsers, t) ==
    /\ variant \in Variants
    /\ installArgs \in [options : optionSet, host : hosts]
    /\ platform \in browsers
    /\ env = InstallEnv(variant, installArgs.options, installArgs.host, platform, PristineEnv)
    /\ options = Constructor(variant, installArgs.options)
    /\ FreshAt(t)

InstalledAt(optionSet, browsers, t) == InstalledOn(optionSet, {"vue3"}, browsers, t)

Installed(optionSet) == InstalledAt(optionSet, {Browser}, 0)

\* the host at time t, before install() is called with one of the given
\* arguments in one of the given browsers
NotInstalledAt(optionSet, hosts, browsers, t) ==
    /\ variant \in Variants
    /\ installArgs \in [options : optionSet, host : hosts]
    /\ platform \in browsers
    /\ env = PristineEnv
    /\ options = NoOptions
    /\ FreshAt(t)

\* the host before install() is called, with any arguments
NotInstalled == NotInstalledAt(OptionArgs, Hosts, {Browser}, 0)

-----------------------------------------------------------------------------
(* Actions *)

\* VueMonitorPlugin.install(VueOrApp, options)
install ==
    /\ env.outcome = "not installed"
    /\ env' = InstallEnv(variant, installArgs.options, installArgs.host, platform, env)
    /\ frame' = IF env'.frameLoop THEN FrameAt(now) ELSE frame
    /\ options' = IF env'.outcome = "installed"
                  THEN Constructor(variant, installArgs.options) ELSE options
    /\ lastOp' = Op("install")
    /\ UNCHANGED <<platform, lastSent, variant, installArgs, breadcrumbs, errorCache, errorQueue, now,
                   requests, composing, buf, last, recorded, lastAccepted>>

\* Date.now() moves on by d
Tick(d, max) ==
    /\ now + d <= max
    /\ now' = now + d
    /\ lastOp' = Op("clock")
    /\ UNCHANGED <<platform, frame, lastSent, variant, installArgs, env, options, breadcrumbs, errorCache,
                   errorQueue, requests, composing, buf, last, recorded, lastAccepted>>

\* the frame of the DOM handlers: `add` records one breadcrumb
Record(type, target, value) ==
    /\ breadcrumbs' = addBreadcrumb(breadcrumbs,
                                    Breadcrumb(type, target, value, recorded + 1, now),
                                    options)
    /\ recorded' = recorded + 1

\* document 'click' listener
click(el, max) ==
    /\ "click" \in env.listeners
    /\ recorded < max
    /\ Record("click", TargetName(variant, el), UndefinedStr)
    /\ lastOp' = [Op("click") EXCEPT !.added = TRUE]
    /\ UNCHANGED <<platform, frame, lastSent, variant, installArgs, env, options, errorCache, errorQueue, now,
                   requests, composing, buf, last, lastAccepted>>

\* document 'input' listener.  part_000 returns early unless the target has a
\* string value
input(el, text) ==
    /\ "input" \in env.listeners
    /\ recorded < MaxCrumbs
    /\ IF variant = "monitor"
       THEN LET v == getTargetValue(el, text)
            IN  /\ Record("input", TargetName(variant, el), Redact(options, v))
                /\ lastOp' = [Op("input") EXCEPT !.added = TRUE, !.text = v]
       ELSE IF el.kind # "input"
            THEN /\ UNCHANGED <<breadcrumbs, recorded>>
                 /\ lastOp' = Op("input")
            ELSE /\ Record("input", TargetName(variant, el), Redact(options, text))
                 /\ lastOp' = [Op("input") EXCEPT !.added = TRUE, !.text = text]
    /\ UNCHANGED <<platform, frame, lastSent, variant, installArgs, env, options, errorCache, errorQueue, now,
                   requests, composing, buf, last, lastAccepted>>

\* document 'compositionstart' listener (monitor.ts)
compositionstart ==
    /\ "compositionstart" \in env.listeners
    /\ composing' = TRUE
    /\ lastOp' = Op("compositionstart")
    /\ UNCHANGED <<platform, frame, lastSent, variant, installArgs, env, options, breadcrumbs, errorCache,
                   errorQueue, now, requests, buf, last, recorded, lastAccepted>>

\* document 'compositionend' listener (monitor.ts)
compositionend(el, text) ==
    /\ "compositionend" \in env.listeners
    /\ recorded < MaxCrumbs
    /\ composing' = FALSE
    /\ LET v == getTargetValue(el, text)
       IN  /\ Record("scan", TargetName(variant, el), Redact(options, v))
           /\ lastOp' = [Op("compositionend") EXCEPT !.added = TRUE, !.text = v]
    /\ UNCHANGED <<platform, frame, lastSent, variant, installArgs, env, options, errorCache, errorQueue, now,
                   requests, buf, last, lastAccepted>>

\* document 'keydown' listener of monitor.ts: Enter outside a composition
keydownMonitor(el, text, key) ==
    /\ IF ~composing /\ key = "Enter"
       THEN LET v == getTargetValue(el, text)
            IN  /\ Record("scan", TargetName(variant, el), Redact(options, v))
                /\ lastOp' = [Op("keydown") EXCEPT !.added = TRUE, !.text = v]
       ELSE /\ UNCHANGED <<breadcrumbs, recorded>>
            /\ lastOp' = Op("keydown")
    /\ UNCHANGED <<buf, last>>

\* document 'keydown' listener of part_000: the keystroke buffer
keydownPart000(key) ==
    LET kept == IF now - last > 50 THEN "" ELSE buf
    IN  /\ last' = now
        /\ IF key = "Enter" /\ kept # ""
           THEN /\ Record("scan", "document", Redact(options, kept))
                /\ buf' = ""
                /\ lastOp' = [Op("keydown") EXCEPT !.added = TRUE, !.text = kept]
           ELSE /\ buf' = IF Len(key) = 1 THEN kept \o key ELSE kept
                /\ UNCHANGED <<breadcrumbs, recorded>>
                /\ lastOp' = Op("keydown")

keydown(el, text, key) ==
    /\ "keydown" \in env.listeners
    /\ recorded < MaxCrumbs
    /\ Len(buf) < MaxBuf \/ Len(key) # 1
    /\ IF variant = "monitor" THEN keydownMonitor(el, text, key) ELSE keydownPart000(key)
    /\ UNCHANGED <<platform, frame, lastSent, variant, installArgs, env, options, errorCache, errorQueue, now,
                   requests, composing, lastAccepted>>

\* VueMonitor.reportError from its second statement on, given the ErrorInfo;
\* `op` is the history record of the handler that runs it
Report(info, op) ==
    /\ LET hash == getErrorHash(info)
           limit == options.errorThrottleTime
           d == Dedup(variant, errorCache, errorQueue, hash, now, limit)
           prev == IF MapHas(lastAccepted, hash) THEN lastAccepted[hash] ELSE Undefined
           same == <<info.message, info.stack, info.url>>
           prevSame == IF MapHas(lastSent, same) THEN lastSent[same] ELSE Undefined
           swept == Cardinality(DOMAIN errorCache) - Cardinality(DOMAIN d.cache)
       IN  IF d.duplicate
           THEN /\ errorCache' = d.cache
                /\ errorQueue' = d.queue
                /\ lastOp' = [op EXCEPT !.hash = hash, !.prev = prev, !.swept = swept,
                                        !.prevSame = prevSame]
                /\ UNCHANGED <<requests, lastAccepted, lastSent>>
           ELSE LET r == Remember(variant, d.cache, d.queue, hash, now)
                IN  /\ errorCache' = r.cache
                    /\ errorQueue' = r.queue
                    /\ requests' = Fetch(requests, variant, options, info, breadcrumbs)
                    /\ lastAccepted' = MapSet(lastAccepted, hash, now)
                    /\ lastSent' = MapSet(lastSent, same, now)
                    /\ lastOp' = [op EXCEPT !.hash = hash, !.prev = prev, !.swept = swept,
                                            !.prevSame = prevSame, !.accepted = TRUE]
    /\ UNCHANGED <<platform, frame, variant, installArgs, env, options, breadcrumbs, now, composing,
                   buf, last, recorded>>

\* VueMonitor.reportError(err)
reportError(err) ==
    /\ env.outcome = "installed"
    /\ Len(requests) < MaxInFlight
    /\ Len(errorQueue) < MaxQueue
    /\ Report(ToErrorInfo(err, now), Op("reportError"))

\* an error event at one of the entry points, x being the value thrown (the
\* rejection reason): the installed handler runs, and after it the handler the
\* host had set before, unless the installed one threw
errorEvent(entry, x) ==
    /\ env.outcome = "installed"
    /\ Len(requests) < MaxInFlight
    /\ Len(errorQueue) < MaxQueue
    /\ Cardinality(DOMAIN errorCache) <= MaxCached
    /\ LET h == Handler(variant, installArgs.host, entry, x)
           op == [Op(entry) EXCEPT !.thrown = x]
       IN  IF h.threw
           THEN /\ lastOp' = [op EXCEPT !.threw = TRUE]
                /\ UNCHANGED <<platform, frame, lastSent, variant, installArgs, env,
                               options, breadcrumbs, errorCache, errorQueue, now,
                               requests, composing, buf, last, recorded, lastAccepted>>
           ELSE Report([ message |-> h.message, stack |-> h.stack, info |-> h.info,
                         url |-> LocationHref, timestamp |-> FormatDate(now) ],
                       [op EXCEPT !.reported = TRUE, !.message = h.message,
                                  !.hasMessage = h.hasMessage,
                                  !.original = IF platform.original THEN 1 ELSE 0,
                                  !.originalArg = IF platform.original THEN x ELSE ""])

\* the promise of request i is fulfilled: no handler is attached to that
fetchResolved(i) ==
    /\ requests' = Settled(requests, i)
    /\ lastOp' = Op("fetch resolved")
    /\ UNCHANGED <<platform, frame, lastSent, variant, installArgs, env, options, breadcrumbs, errorCache,
                   errorQueue, now, composing, buf, last, recorded, lastAccepted>>

\* the promise of request i is rejected: the .catch handler runs
fetchRejected(i) ==
    /\ requests' = Catch(requests, i)
    /\ lastOp' = Op("fetch rejected")
    /\ UNCHANGED <<platform, frame, lastSent, variant, installArgs, env, options, breadcrumbs, errorCache,
                   errorQueue, now, composing, buf, last, recorded, lastAccepted>>

\* a performance entry
PerfEntry == [name |-> "e", startTime |-> 12, duration |-> 70]

\* JSON.stringify({name, startTime, duration})
JsonPerfEntry(entry) ==
    "{\"name\":\"" \o entry.name \o "\",\"startTime\":" \o ToString(entry.startTime)
        \o ",\"duration\":" \o ToString(entry.duration) \o "}"

\* the callback of the PerformanceObserver subscribed to `type`, delivering
\* one entry
perfEntry(type) ==
    /\ type \in env.observers
    /\ recorded < MaxCrumbs
    /\ Record("performance", type, JsonPerfEntry(PerfEntry))
    /\ lastOp' = [Op("perfEntry") EXCEPT !.added = TRUE]
    /\ UNCHANGED <<platform, frame, lastSent, variant, installArgs, env, options,
                   errorCache, errorQueue, now, requests, composing, buf, last,
                   lastAccepted>>

\* document.hidden changes
visibilitychange ==
    /\ frame' = [frame EXCEPT !.hidden = ~@, !.wasHidden = @ \/ ~frame.hidden]
    /\ lastOp' = Op("visibilitychange")
    /\ UNCHANGED <<platform, lastSent, variant, installArgs, env, options, breadcrumbs,
                   errorCache, errorQueue, now, requests, composing, buf, last,
                   recorded, lastAccepted>>

\* initFrameDropMonitor.tick, a requestAnimationFrame callback; it schedules
\* itself again, so it runs as long as the browser delivers frames
tick ==
    /\ env.frameLoop
    /\ recorded < MaxFrameCrumbs
    /\ LET t == PerformanceNow(now)
           delta == t - frame.lastFrameTime
           drop == IsDrop(frame.hidden, delta)
           pending == IF drop THEN Accumulate(frame.pending, delta) ELSE frame.pending
           \* pushBreadcrumb() is called in a counted tick only
           run == drop /\ ThrottlePasses(frame.lastTime, now)
           emit == run /\ pending # NoPending
       IN  /\ frame' = [frame EXCEPT !.lastFrameTime = t,
                                     !.pending = IF emit THEN NoPending ELSE pending,
                                     !.lastTime = IF run THEN now ELSE @,
                                     !.wasHidden = frame.hidden,
                                     !.drops = IF emit THEN 0 ELSE IF drop THEN @ + 1 ELSE @,
                                     !.emittedAt = IF emit THEN now ELSE @]
           /\ IF emit
              THEN Record("performance", "frame-drop", JsonFrameDrop(pending))
              ELSE UNCHANGED <<breadcrumbs, recorded>>
           /\ lastOp' = [Op("tick") EXCEPT !.delta = delta, !.counted = drop,
                                           !.emitted = emit,
                                           !.afterHidden = frame.wasHidden /\ ~frame.hidden,
                                           !.prevEmit = frame.emittedAt,
                                           !.drops = IF drop THEN frame.drops + 1
                                                     ELSE frame.drops]
    /\ UNCHANGED <<platform, lastSent, variant, installArgs, env, options, errorCache,
                   errorQueue, now, requests, composing, buf, last, lastAccepted>>

-----------------------------------------------------------------------------
(* Specifications *)

\* SpecBuffer: the breadcrumb buffer alone, up to past the default capacities
BufferOptions ==
    {Options(m, Undefined, "undefined", CustomNone) : m \in {Undefined, 0, 1, 2, 3}}

InitBuffer == Installed(BufferOptions)

NextBuffer == click(ButtonEl, MaxRecorded)

SpecBuffer == InitBuffer /\ [][NextBuffer]_vars

\* Spec: reports, their deduplication and their dispatch
Init ==
    /\ Installed(ReportOptions("monitor"))
    /\ installArgs.options \in ReportOptions(variant)

Next ==
    \/ Tick(1, MaxNow)
    \/ \E err \in {ErrA, ErrB} : reportError(err)
    \/ click(ButtonEl, MaxCrumbs)
    \/ \E i \in 1..Len(requests) : fetchResolved(i)
    \/ \E i \in 1..Len(requests) : fetchRejected(i)

Spec == Init /\ [][Next]_vars

\* SpecInstall: from before install(), with any arguments, to the first events
NextInstall ==
    \/ install
    \/ Tick(1, MaxNow)
    \/ click(ButtonEl, MaxCrumbs)
    \/ \E err \in {ErrA, ErrObj} : reportError(err)
    \/ \E i \in 1..Len(requests) : fetchResolved(i)
    \/ \E i \in 1..Len(requests) : fetchRejected(i)

SpecInstall == NotInstalled /\ [][NextInstall]_vars

\* SpecBehavior: typing, composing and scanning, with the filter unset, on and off
BehaviorOptions ==
    {Options(1, Undefined, f, CustomNone) : f \in {"undefined", "true", "false"}}

BehaviorInit == Installed(BehaviorOptions)

NextBehavior ==
    \/ \E d \in {20, 51} : Tick(d, MaxTypingNow)
    \/ \E el \in Elements, text \in Texts : input(el, text)
    \/ compositionstart
    \/ \E el \in Elements, text \in Texts : compositionend(el, text)
    \/ \E el \in Elements, text \in Texts, key \in Keys : keydown(el, text, key)

SpecBehavior == BehaviorInit /\ [][NextBehavior]_vars

\* SpecConfig: engines constructed from options whose three defaulted fields
\* are unset or set explicitly, 0 and false included
ConfigOptions ==
    { Options(m, t, f, CustomNone) :
        m \in {Undefined, 0, 1}, t \in {Undefined, 0, 2},
        f \in {"undefined", "true", "false"} }

InitConfig == Installed(ConfigOptions)

NextConfig ==
    \/ Tick(1, MaxConfigNow)
    \/ click(ButtonEl, MaxCrumbs)
    \/ input(InputEl, "ab")
    \/ reportError(ErrA)
    \/ \E i \in 1..Len(requests) : fetchResolved(i)

SpecConfig == InitConfig /\ [][NextConfig]_vars

\* SpecFrame: the frame-drop monitor of monitor.ts over short (20ms) and long
\* (60ms) steps of the clock, with the page hidden and shown again
FrameOptions == {Options(2, Undefined, "undefined", CustomNone)}

InitFrame ==
    /\ InstalledAt(FrameOptions, {Browser}, TimeOrigin)
    /\ variant = "monitor"

NextFrame ==
    \/ \E d \in {20, 60} : Tick(d, TimeOrigin + MaxFrameNow)
    \/ visibilitychange
    \/ tick

SpecFrame == InitFrame /\ [][NextFrame]_vars

\* SpecPerf: install() in browsers with and without PerformanceObserver, and
\* with categories whose subscription throws; then entries and frames arrive
PerfBrowsers ==
    { [perfObserver |-> o, throwing |-> th, original |-> FALSE] :
        o \in BOOLEAN,
        th \in {{}, {"paint"}, {"first-input", "longtask"}, PerfTypes} }

InitPerf == NotInstalledAt(FrameOptions, {"vue3"}, PerfBrowsers, TimeOrigin)

NextPerf ==
    \/ install
    \/ Tick(60, TimeOrigin + MaxPerfNow)
    \/ \E type \in PerfTypes : perfEntry(type)
    \/ tick

SpecPerf == InitPerf /\ [][NextPerf]_vars

\* SpecErrors: thrown values of every kind arrive at every entry point, on Vue 2
\* and Vue 3, with and without handlers the host had set before install()
ErrorOptions == {Options(2, 2, "undefined", CustomNone)}

InitErrors ==
    InstalledOn(ErrorOptions, {"vue3", "vue2"},
                {Browser, [Browser EXCEPT !.original = TRUE]}, 0)

NextErrors ==
    \/ Tick(1, MaxErrorsNow)
    \/ \E entry \in Entries, x \in Thrown : errorEvent(entry, x)
    \/ \E i \in 1..Len(requests) : fetchResolved(i)

SpecErrors == InitErrors /\ [][NextErrors]_vars

\* SpecHash: reports of errors whose components contain the separator of the
\* hash
HashOptions == {Options(2, 2, "undefined", CustomNone)}

InitHash == Installed(HashOptions)

NextHash ==
    \/ Tick(1, MaxHashNow)
    \/ \E err \in HashErrors : reportError(err)
    \/ \E i \in 1..Len(requests) : fetchResolved(i)

SpecHash == InitHash /\ [][NextHash]_vars

-----------------------------------------------------------------------------
(* Claims *)

Min(a, b) == IF a < b THEN a ELSE b

\* C1: after every addBreadcrumb call the buffer is no longer than
\* maxBreadcrumbs and holds exactly the latest min(maxBreadcrumbs, recorded)
\* breadcrumbs, oldest first.
C1_BufferHoldsMostRecent ==
    /\ Len(breadcrumbs) <= options.maxBreadcrumbs
    /\ Len(breadcrumbs) = Min(options.maxBreadcrumbs, recorded)
    /\ \A i \in 1..Len(breadcrumbs) :
           breadcrumbs[i].id = recorded - Len(breadcrumbs) + i

\* maxBreadcrumbs = 3 and b1..b5 recorded: the buffer is [b3, b4, b5]
C1_Witness ==
    /\ options.maxBreadcrumbs = 3
    /\ recorded = 5
    /\ [i \in 1..Len(breadcrumbs) |-> breadcrumbs[i].id] = <<3, 4, 5>>

\* the last operation was a reportError call of a hash accepted before
ReportedAgain == lastOp.op = "reportError" /\ lastOp.prev # Undefined

\* C2: in monitor.ts two accepted reports of one hash are at least
\* errorThrottleTime apart (a report within the window of the latest accepted
\* one is suppressed).
C2_MonitorThrottles ==
    (variant = "monitor" /\ ReportedAgain /\ lastOp.accepted)
        => now - lastOp.prev >= options.errorThrottleTime

\* a report of monitor.ts suppressed inside the window of an earlier one
C2_Witness ==
    /\ variant = "monitor"
    /\ ReportedAgain
    /\ ~lastOp.accepted
    /\ now - lastOp.prev = options.errorThrottleTime - 1

\* C3: in part_000 two accepted reports of one hash are at least
\* errorThrottleTime apart, also at clock value 0 and for a hash accepted more
\* than once.
C3_QueueThrottles ==
    (variant = "part_000" /\ ReportedAgain /\ lastOp.accepted)
        => now - lastOp.prev >= options.errorThrottleTime

\* C4: a report of a hash last accepted errorThrottleTime or more ago is
\* accepted and its cached timestamp becomes now, in both variants.
C4_BoundaryIsReportable ==
    (ReportedAgain /\ now - lastOp.prev >= options.errorThrottleTime)
        => /\ lastOp.accepted
           /\ MapHas(errorCache, lastOp.hash)
           /\ errorCache[lastOp.hash] = now

\* a report exactly errorThrottleTime after the latest accepted one
C4_Witness ==
    /\ ReportedAgain
    /\ now - lastOp.prev = options.errorThrottleTime
    /\ lastOp.accepted

\* C5: when a reportError call is over, no cache entry is older than
\* errorThrottleTime, in both variants.
C5_NoExpiredEntry ==
    lastOp.op = "reportError"
        => \A h \in DOMAIN errorCache :
               ~(now - errorCache[h] > options.errorThrottleTime)

\* a reportError call whose sweep removed an entry and left another
C5_Witness ==
    /\ lastOp.op = "reportError"
    /\ lastOp.swept > 0
    /\ Cardinality(DOMAIN errorCache) > 1

\* C6: a suppressed reportError call sends nothing and leaves the cached
\* timestamp of its hash and the breadcrumb buffer as they were.
C6_SuppressedChangesNothing ==
    [][ (lastOp'.op = "reportError" /\ ~lastOp'.accepted)
          => /\ requests' = requests
             /\ MapHas(errorCache, lastOp'.hash)
             /\ MapHas(errorCache', lastOp'.hash)
             /\ errorCache'[lastOp'.hash] = errorCache[lastOp'.hash]
             /\ breadcrumbs' = breadcrumbs ]_vars

\* a suppressed report while the buffer holds breadcrumbs, after time passed
C6_Witness ==
    /\ ReportedAgain
    /\ ~lastOp.accepted
    /\ Len(breadcrumbs) > 0
    /\ now > lastOp.prev

\* C7: an accepted reportError call issues a POST whose breadcrumbs field is
\* the breadcrumb buffer at the call, in record order.
C7_BodyCarriesBuffer ==
    (lastOp.op = "reportError" /\ lastOp.accepted)
        => /\ Len(requests) > 0
           /\ requests[Len(requests)].method = "POST"
           /\ requests[Len(requests)].body["breadcrumbs"] = JsonBreadcrumbs(breadcrumbs)

\* C8: a rejected fetch is absorbed: no request is issued for it again, the
\* dedup cache and the buffer stay as they are, and the engine is in the state
\* it would be in had the request succeeded.
C8_RejectionIsAbsorbed ==
    [][ lastOp'.op = "fetch rejected"
          => /\ \E i \in 1..Len(requests) : requests' = Settled(requests, i)
             /\ errorCache' = errorCache
             /\ errorQueue' = errorQueue
             /\ breadcrumbs' = breadcrumbs ]_vars

\* a fetch was rejected while the cache and the buffer hold entries
C8_Witness ==
    /\ lastOp.op = "fetch rejected"
    /\ errorCache # EmptyMap
    /\ Len(breadcrumbs) > 0

\* nothing of the plugin is attached to the host
NothingAttached ==
    /\ ~env.onerrorWrapped
    /\ ~env.onunhandledrejectionWrapped
    /\ env.listeners = {}
    /\ env.observers = {}
    /\ ~env.frameLoop
    /\ ~env.errorHandlerReplaced
    /\ env.exposed = "none"

\* C9: install() with options missing or without reportUrl fails with an error
\* and attaches nothing: no wrapped global handler, no listener, observer or
\* frame loop, no replaced Vue errorHandler, no exposed monitor.
C9_NoReportUrlAttachesNothing ==
    (env.outcome # "not installed" /\ NoReportUrl(installArgs.options))
        => /\ env.outcome \in {"console.error", "TypeError"}
           /\ NothingAttached

\* the texts `length:<n>` of the captured lengths
LengthOnly ==
    {"length:" \o ToString(n) : n \in (0..MaxBuf) \cup {Len(text) : text \in Texts}}

\* C10: with filterInputAndScanData true or unset, every input or scan
\* breadcrumb in the buffer has the value length:<n>, n the length of the
\* captured text, whichever handler recorded it.
C10_ValuesAreRedacted ==
    installArgs.options.filterInputAndScanData \in {"undefined", "true"}
        => /\ \A i \in 1..Len(breadcrumbs) :
                  breadcrumbs[i].type \in {"input", "scan"}
                      => breadcrumbs[i].value \in LengthOnly
           /\ (lastOp.added /\ lastOp.op \in {"input", "compositionend", "keydown"})
                  => breadcrumbs[Len(breadcrumbs)].value
                         = "length:" \o ToString(Len(lastOp.text))

\* with the filter unset, an Enter keydown recorded a captured text of two
\* characters as a scan breadcrumb
C10_Witness ==
    /\ installArgs.options.filterInputAndScanData = "undefined"
    /\ lastOp.op = "keydown"
    /\ lastOp.added
    /\ Len(lastOp.text) = 2
    /\ breadcrumbs[Len(breadcrumbs)].type = "scan"

\* C11: every value the caller set explicitly for maxBreadcrumbs,
\* errorThrottleTime or filterInputAndScanData, 0 and false included, is the
\* value the engine holds and uses: the buffer never holds more than an
\* explicit maxBreadcrumbs
C11_ExplicitValuesAreKept ==
    LET given == installArgs.options IN
    /\ given.maxBreadcrumbs # Undefined
          => /\ options.maxBreadcrumbs = given.maxBreadcrumbs
             /\ Len(breadcrumbs) <= given.maxBreadcrumbs
    /\ given.errorThrottleTime # Undefined
          => options.errorThrottleTime = given.errorThrottleTime
    /\ given.filterInputAndScanData # "undefined"
          => options.filterInputAndScanData = (given.filterInputAndScanData = "true")

\* the step records a breadcrumb whose target is frame-drop
FrameDropRecorded ==
    /\ recorded' = recorded + 1
    /\ breadcrumbs' # <<>>
    /\ breadcrumbs'[Len(breadcrumbs')].target = "frame-drop"

\* C12: a frame-drop breadcrumb is recorded only by a step taken while the page
\* is visible and more than 50ms after the tick before; never while the page
\* is hidden or with a delta of 50ms or less
C12_DropsOnlyWhenVisibleAndLong ==
    [][ FrameDropRecorded
          => /\ ~frame.hidden
             /\ PerformanceNow(now) - frame.lastFrameTime > DropThreshold ]_vars

\* a tick of a visible page, 60ms after the tick before, recorded a frame-drop
\* breadcrumb
C12_Witness ==
    /\ lastOp.op = "tick"
    /\ lastOp.emitted
    /\ lastOp.delta = 60
    /\ ~frame.hidden
    /\ breadcrumbs # <<>>
    /\ breadcrumbs[Len(breadcrumbs)].target = "frame-drop"

\* C13: the first tick that runs with the page visible again after a hidden
\* period is not counted as a drop: it neither adds to the pending count nor
\* records a frame-drop breadcrumb
C13_FirstVisibleTickNotCounted ==
    (lastOp.op = "tick" /\ lastOp.afterHidden)
        => (~lastOp.counted /\ ~lastOp.emitted)

\* C14: two frame-drop breadcrumbs are at least 100ms apart; each carries the
\* number of visible ticks with delta > 50ms since the emission before and the
\* delta of the latest of them; the pending record is null after an emission
C14_EmissionsApartAndCounted ==
    (lastOp.op = "tick" /\ lastOp.emitted)
        => /\ lastOp.prevEmit # Undefined => now - lastOp.prevEmit >= ThrottleWait
           /\ breadcrumbs # <<>>
           /\ breadcrumbs[Len(breadcrumbs)].value
                  = JsonFrameDrop([frameTime |-> lastOp.delta, count |-> lastOp.drops])
           /\ frame.pending = NoPending

\* a second emission that carries two counted drops
C14_Witness ==
    /\ lastOp.op = "tick"
    /\ lastOp.emitted
    /\ lastOp.prevEmit # Undefined
    /\ lastOp.drops = 2
    /\ breadcrumbs[Len(breadcrumbs)].value = "{\"frameTime\":60,\"count\":2}"

\* C15: a pending frame-drop record is emitted once the 100ms window has
\* elapsed, also without another counted drop: after a tick, a record is
\* pending only while the window since the last emission is still open
C15_PendingIsFlushed ==
    (lastOp.op = "tick" /\ frame.pending # NoPending)
        => now - frame.lastTime < ThrottleWait

\* the targets of the performance-observer breadcrumbs in the buffer
ObservedTargets ==
    { breadcrumbs[i].target : i \in { j \in 1..Len(breadcrumbs) :
          breadcrumbs[j].type = "performance" /\ breadcrumbs[j].target # "frame-drop" } }

\* C16: when PerformanceObserver exists and subscribing to some categories
\* throws, every other category is subscribed after initPerformanceMonitor,
\* and no performance breadcrumb has a failing category as its target
C16_FailingCategoryIsSkipped ==
    (variant = "monitor" /\ env.outcome = "installed" /\ platform.perfObserver)
        => /\ env.observers = PerfTypes \ platform.throwing
           /\ ObservedTargets \cap platform.throwing = {}

\* paint failed to subscribe and a longtask entry was recorded all the same
C16_Witness ==
    /\ variant = "monitor"
    /\ env.outcome = "installed"
    /\ platform.perfObserver
    /\ platform.throwing = {"paint"}
    /\ "longtask" \in ObservedTargets

\* C20: every call of initPerformanceMonitor starts the frame tick loop, also
\* without PerformanceObserver and when every subscription fails
C20_FrameLoopAlwaysStarts ==
    (variant = "monitor" /\ env.outcome = "installed") => env.frameLoop

\* C17: for every thrown value delivered through an error entry point, values
\* that are no Error objects included, the handler completes without throwing
\* and hands reportError an ErrorInfo with a message
C17_HandlersNeverThrow ==
    lastOp.op \in Entries
        => (~lastOp.threw /\ lastOp.reported /\ lastOp.hasMessage)

\* C18: a handler the host had set before install() is invoked exactly once
\* for every later error event, with the value of the event, after reportError
\* has run, whether the report was accepted or suppressed
C18_OriginalHandlerIsCalled ==
    (lastOp.op \in Entries /\ platform.original)
        => (lastOp.reported /\ lastOp.original = 1 /\ lastOp.originalArg = lastOp.thrown)

\* the error of ErrorInfo e, as the key of lastSent
SameError(e) == <<e.message, e.stack, e.url>>

\* C19: errors with the same message and stack but different url are
\* throttled independently: a report is suppressed only inside the window of
\* an accepted report of the very same message, stack and url, never because
\* of a report with another url
C19_UrlsThrottleIndependently ==
    (lastOp.op = "reportError" /\ ~lastOp.accepted)
        => /\ lastOp.prevSame # Undefined
           /\ now - lastOp.prevSame < options.errorThrottleTime

\* the error at /b is accepted for the first time inside the open window of
\* the same error at /a
C19_Witness ==
    /\ lastOp.op = "reportError"
    /\ lastOp.accepted
    /\ lastOp.hash = getErrorHash(ErrB)
    /\ lastOp.prevSame = Undefined
    /\ MapHas(lastSent, SameError(ErrA))
    /\ now > lastSent[SameError(ErrA)]
    /\ now - lastSent[SameError(ErrA)] < options.errorThrottleTime

\* the positions of the eviction queue that hold hash h
QueueEntries(h) == {i \in 1..Len(errorQueue) : errorQueue[i].hash = h}

\* C21: in part_000 the map and the eviction queue agree after every
\* reportError call: each hash of errorCache has exactly one entry in
\* errorQueue, with the map's timestamp as its time, and each entry of
\* errorQueue has its hash in errorCache (so that evicting a queue entry never
\* deletes a map entry with a newer timestamp)
C21_MapAndQueueAgree ==
    variant = "part_000"
        => /\ \A h \in DOMAIN errorCache :
                 /\ Cardinality(QueueEntries(h)) = 1
                 /\ \A i \in QueueEntries(h) : errorQueue[i].time = errorCache[h]
           /\ \A i \in 1..Len(errorQueue) : errorQueue[i].hash \in DOMAIN errorCache

\* C22: errors whose (message, stack, url) triples differ get different
\* hashes, also when a component contains '-', so a report is never suppressed
\* unless a report of the same triple was accepted before
C22_HashSeparatesErrors ==
    /\ \A e1, e2 \in HashErrors :
          SameError(e1) # SameError(e2) => getErrorHash(e1) # getErrorHash(e2)
    /\ (lastOp.op = "reportError" /\ ~lastOp.accepted) => lastOp.prevSame # Undefined

====
